---- MODULE Spec2Model ----
(***************************************************************************)
(* Model of the exercise-name resolver of voice-ingestion:                 *)
(*   app/services/exercise_resolver_service.py  (ExerciseResolverService)  *)
(*   app/routes/exercise.py                     (the /resolve-exercise     *)
(*                                               route around it)          *)
(*                                                                         *)
(* Texts (Python str) are sequences of symbols.  A symbol is one character *)
(* (" ", a double quote, a single quote) or a word that holds no           *)
(* whitespace and no quote; the string is the concatenation of its         *)
(* symbols.  str.strip, str.lower and the comparisons of the code are      *)
(* computed on these sequences.                                            *)
(*                                                                         *)
(* Python's None and a key missing from a dict are the texts NoneText and  *)
(* AbsentText (no symbol of any real text), and NoneCount / AbsentCount    *)
(* for integers.  confidence_score is kept in hundredths (0.85 is 85).     *)
(***************************************************************************)
EXTENDS Integers, Sequences, FiniteSets, TLC

(***************************************************************************)
(* Texts                                                                   *)
(***************************************************************************)
DQ == "\""
SQ == "'"
SP == " "

Whitespace == {SP}

NoneText == <<"<None>">>
AbsentText == <<"<absent>">>

\* str.lower() on one symbol: the upper-case words of the alphabet
LowerSym(s) ==
    CASE s = "NULL" -> "null"
      [] s = "Null" -> "null"
      [] s = "None" -> "none"
      [] s = "NONE" -> "none"
      [] s = "Bench" -> "bench"
      [] s = "Press" -> "press"
      [] s = "Squat" -> "squat"
      [] s = "Curl" -> "curl"
      [] OTHER -> s

\* str.lower()
Lower(t) == [i \in DOMAIN t |-> LowerSym(t[i])]

RECURSIVE LStrip(_, _)
LStrip(t, chars) ==
    IF t # <<>> /\ Head(t) \in chars THEN LStrip(Tail(t), chars) ELSE t

RECURSIVE RStrip(_, _)
RStrip(t, chars) ==
    IF t # <<>> /\ t[Len(t)] \in chars
    THEN RStrip(SubSeq(t, 1, Len(t) - 1), chars)
    ELSE t

\* str.strip(chars); str.strip() is Strip(t, Whitespace)
Strip(t, chars) == RStrip(LStrip(t, chars), chars)

\* ", ".join(list of one-symbol tags)
RECURSIVE Join(_)
Join(tags) ==
    IF tags = <<>> THEN <<>>
    ELSE IF Len(tags) = 1 THEN <<tags[1]>>
    ELSE <<tags[1], ", ">> \o Join(Tail(tags))

\* the elements of a sequence
Range(s) == {s[i] : i \in DOMAIN s}

(***************************************************************************)
(* Bounds and program constants                                            *)
(***************************************************************************)
\* largest candidate_count the requests of the model ask for
MaxTargetCount == 4

\* Field(ge=3, le=15) of ResolveExerciseRequest.candidate_count
MinCandidateCount == 3
MaxCandidateCount == 15

\* score_threshold=50 at the call in _select_candidates
ScoreThreshold == 50

\* "confidence_score": 0.85, in hundredths
MatchConfidence == 85

\* candidate_count: Optional[int] = Field(7, ...): the value of an absent field
DefaultCandidateCount == 7

\* candidate_count=7 at the call in enrich_workout_log
EnrichCandidateCount == 7

\* score_cutoff=50 in search_exercises
SearchCutoff == 50

\* limit: int = 10 of search_exercises
DefaultLimit == 10

\* largest explicit limit the searches of the model ask for
MaxSearchLimit == 2

\* candidate_count: Optional[int] may arrive as None
NoneCount == -1
\* a result dict without the key "candidates_count"
AbsentCount == -2

(***************************************************************************)
(* The catalog sources: database/exercises.json and                        *)
(* database/alias_index.json are read at construction and are not part of  *)
(* the repository; the model starts from one of a few files.               *)
(***************************************************************************)
AbsentTags == <<"<absent>">>

IdA == <<"a">>
IdB == <<"b">>
IdC == <<"c">>
\* an identifier that reads as the oracle's "no match" word
IdNone == <<"none">>

Ids == {IdA, IdB, IdC, IdNone}

ExA == [exerciseId |-> IdA, name |-> <<"Bench">>,
        equipments |-> <<"barbell">>, targetMuscles |-> <<"chest", "triceps">>,
        bodyParts |-> <<"chest">>, gifUrl |-> <<"a.gif">>]
ExB == [exerciseId |-> IdB, name |-> <<"bench", SP, "press">>,
        equipments |-> <<"barbell", "rack">>, targetMuscles |-> <<"chest">>,
        bodyParts |-> <<"upper">>, gifUrl |-> <<"b.gif">>]
\* a record with only the two mandatory keys and one tag list
ExC == [exerciseId |-> IdC, name |-> <<"Squat">>,
        equipments |-> AbsentTags, targetMuscles |-> <<"quads">>,
        bodyParts |-> AbsentTags, gifUrl |-> AbsentText]
ExNone == [exerciseId |-> IdNone, name |-> <<"bench", SP, "Curl">>,
           equipments |-> <<"dumbbell">>, targetMuscles |-> <<"biceps">>,
           bodyParts |-> <<"arms">>, gifUrl |-> <<"n.gif">>]
\* a second record under the identifier of ExA, named like ExC
ExDup == [exerciseId |-> IdA, name |-> <<"squat">>,
          equipments |-> <<"band">>, targetMuscles |-> <<"glutes">>,
          bodyParts |-> <<"legs">>, gifUrl |-> <<"d.gif">>]
\* a record without the key "name"
ExNameless == [exerciseId |-> IdB, name |-> AbsentText,
               equipments |-> <<>>, targetMuscles |-> <<>>,
               bodyParts |-> <<>>, gifUrl |-> <<>>]

\* a record without the key "exerciseId"
ExIdless == [exerciseId |-> AbsentText, name |-> <<"Curl">>,
             equipments |-> <<>>, targetMuscles |-> <<>>,
             bodyParts |-> <<>>, gifUrl |-> <<>>]

ExerciseFiles ==
    { <<>>,
      <<ExA>>,
      <<ExA, ExB, ExC>>,
      <<ExA, ExB, ExC, ExNone>>,
      <<ExNone, ExB>>,
      <<ExB, ExC>>,
      <<ExA, ExC, ExDup>>,
      <<ExA, ExNameless>> }

\* alias_index.json: normalized name -> list of identifiers
AliasFiles ==
    { <<>>,
      (<<"bench">> :> <<IdA>>),
      (<<"bench">> :> <<IdC>>),
      (<<"bench">> :> <<IdC, IdB, IdNone>>) @@ (<<"squat">> :> <<IdC, IdC>>) }

\* the orders in which a set of identifiers can be iterated
Perms(S) == {p \in [1..Cardinality(S) -> S] : Range(p) = S}

\* data_dir when the service is constructed: each of the two files is there
\* and parses ("ok"), is not there ("missing") or is not JSON ("malformed")
Source(alias_file, alias_json, exercises_file, exercises_json) ==
    [alias_file |-> alias_file, alias_json |-> alias_json,
     exercises_file |-> exercises_file, exercises_json |-> exercises_json]

CatalogSources ==
    {Source("ok", a, "ok", e) : a \in AliasFiles, e \in ExerciseFiles}
        \cup { Source("missing", <<>>, "ok", <<ExA>>),
               Source("malformed", <<>>, "ok", <<ExA>>),
               Source("ok", <<>>, "missing", <<>>),
               Source("ok", <<>>, "malformed", <<>>),
               Source("ok", <<>>, "ok", <<ExA, ExIdless>>) }

\* the identifiers the files hold: the only strings candidate_ids can hold
StoredIds(src) ==
    {src.exercises_json[i].exerciseId : i \in DOMAIN src.exercises_json}
        \cup UNION {Range(src.alias_json[k]) : k \in DOMAIN src.alias_json}

\* the exercise names the requests ask for
ExerciseNames ==
    { <<"bench">>, <<SP, "Bench", SP>>, <<"Squat">>, <<"zzz">>, <<>> }

\* the exercise_name fields of the request bodies: a name, or no such field
RequestNames == ExerciseNames \cup {AbsentText}

\* the candidate_count fields of the request bodies: absent, null, an integer
RequestCounts ==
    {AbsentCount, NoneCount, MaxCandidateCount + 1}
        \cup {n \in MinCandidateCount - 1 .. MaxCandidateCount : n <= MaxTargetCount}

\* the exercise names of the workout logs to enrich
EnrichNames == { <<"bench">>, <<"zzz">> }

\* the rest of a workout log: action, sets, set_count, pre_parsed_message
WorkoutLogs ==
    { [action |-> "log_set", sets |-> <<[reps |-> 5, weight |-> 100]>>,
       set_count |-> 1, pre_parsed_message |-> NoneText],
      [action |-> "log_sets",
       sets |-> <<[reps |-> 5, weight |-> 100], [reps |-> 3, weight |-> 110]>>,
       set_count |-> 3, pre_parsed_message |-> <<"3x5", " ", "bench">>] }

\* the path parameters of /exercises/search/{query}: never empty
SearchQueries == { <<"bench">>, <<"Bench", " ", "press">>, <<"zzz">>, <<" ", "bench">> }

\* the limit query parameters
SearchLimits == 1..MaxSearchLimit \cup {DefaultLimit}

\* the path parameters of /exercises/{exercise_id}
RequestIds == Ids \cup { <<"zz">> }

(***************************************************************************)
(* State                                                                   *)
(***************************************************************************)
\* the request slots; `workers` are the ones that serve requests
Calls == {1, 2}

VARIABLES
    alias_index,      \* self.alias_index
    exercises,        \* self.exercises
    exercises_by_id,  \* self.exercises_by_id
    hashOrder,        \* the order in which this process iterates a set of ids
    workers,          \* the slots in use
    sources,          \* the files of data_dir
    loadError,        \* str(e) of the exception __init__ raised, else NoneText
    request,          \* the route a slot serves and the request it was sent
    pc,               \* where each request is
    exercise_name,    \* resolve_exercise's argument
    candidate_count,  \* resolve_exercise's argument
    candidates,       \* the local `candidates`, once selected
    sent,             \* the prompts handed to the oracle in this call
    answer,           \* what the oracle did with the last prompt
    raised,           \* the message of the exception raised in this call
    result,           \* the dict resolve_exercise returned
    response          \* the body the route answered with

vars == <<alias_index, exercises, exercises_by_id, hashOrder, workers, sources,
          loadError, request, pc, exercise_name, candidate_count, candidates,
          sent, answer, raised, result, response>>

catalogVars == <<alias_index, exercises, exercises_by_id, hashOrder, workers,
                 sources, loadError>>

(***************************************************************************)
(* Catalog store: _load_databases                                          *)
(***************************************************************************)
\* {ex["exerciseId"]: ex for ex in self.exercises}: the last record wins
ExercisesById(exs) ==
    [id \in {exs[i].exerciseId : i \in DOMAIN exs} |->
        exs[CHOOSE i \in DOMAIN exs :
                /\ exs[i].exerciseId = id
                /\ \A j \in DOMAIN exs : exs[j].exerciseId = id => j <= i]]

\* str(e) of what open() and json.load() raise
FileNotFoundText == <<"[Errno 2] No such file or directory">>
JsonDecodeText == <<"Expecting value: line 1 column 1 (char 0)">>
IdKeyErrorText == <<"'exerciseId'">>

\* _load_databases: the attributes it sets, or the exception it re-raises
LoadDatabases(src) ==
    LET Failed(message) ==
            [error |-> message, alias_index |-> <<>>, exercises |-> <<>>,
             exercises_by_id |-> <<>>]
    IN  IF src.alias_file = "missing" THEN Failed(FileNotFoundText)
        ELSE IF src.alias_file = "malformed" THEN Failed(JsonDecodeText)
        ELSE IF src.exercises_file = "missing" THEN Failed(FileNotFoundText)
        ELSE IF src.exercises_file = "malformed" THEN Failed(JsonDecodeText)
        ELSE IF \E i \in DOMAIN src.exercises_json :
                    src.exercises_json[i].exerciseId = AbsentText
             THEN Failed(IdKeyErrorText)
        ELSE [error |-> NoneText,
              alias_index |-> src.alias_json,
              exercises |-> src.exercises_json,
              exercises_by_id |-> ExercisesById(src.exercises_json)]

(***************************************************************************)
(* Candidate selector                                                      *)
(***************************************************************************)
\* name.lower().strip()
NormalizeName(name) == Strip(Lower(name), Whitespace)

\* self.alias_index.get(normalized, [])
GetCandidatesFromAliases(name) ==
    IF NormalizeName(name) \in DOMAIN alias_index
    THEN alias_index[NormalizeName(name)]
    ELSE <<>>

\* the keys of search_corpus, in insertion order
RECURSIVE CorpusKeys(_)
CorpusKeys(exs) ==
    IF exs = <<>> THEN <<>>
    ELSE LET front == CorpusKeys(SubSeq(exs, 1, Len(exs) - 1))
             key == Lower(exs[Len(exs)].name)
         IN  IF key \in Range(front) THEN front ELSE Append(front, key)

\* search_corpus[key]: the identifier of the last record with that name
CorpusId(exs, key) ==
    exs[CHOOSE i \in DOMAIN exs :
            /\ Lower(exs[i].name) = key
            /\ \A j \in DOMAIN exs : Lower(exs[j].name) = key => j <= i].exerciseId

\* the words of a text
Tokens(t) == Range(t) \ (Whitespace \cup {DQ, SQ})

\* rapidfuzz's fuzz.WRatio on a 0..100 scale: 100 for equal strings, 0 when
\* one is empty, 90 when the words of one are among the words of the other,
\* 60 when they share a word, 20 otherwise
WRatio(q, n) ==
    IF q = <<>> \/ n = <<>> THEN 0
    ELSE IF q = n THEN 100
    ELSE IF Tokens(q) \subseteq Tokens(n) \/ Tokens(n) \subseteq Tokens(q) THEN 90
    ELSE IF Tokens(q) \cap Tokens(n) # {} THEN 60
    ELSE 20

\* the (choice, score) pairs scoring s .. cutoff, best first, equal scores in
\* corpus order
RECURSIVE RankedPairs(_, _, _)
RankedPairs(pairs, s, cutoff) ==
    IF s < cutoff \/ s < 0 THEN <<>>
    ELSE LET Scores(pair) == pair[2] = s
         IN  SelectSeq(pairs, Scores) \o RankedPairs(pairs, s - 1, cutoff)

\* the choices scored against the query and ranked
Ranked(q, keys, s, cutoff) ==
    RankedPairs([i \in DOMAIN keys |-> <<keys[i], WRatio(q, keys[i])>>], s, cutoff)

\* seq[:n]
Slice(seq, n) == SubSeq(seq, 1, IF n < Len(seq) THEN n ELSE Len(seq))

\* process.extract(query, choices, scorer=fuzz.WRatio, limit, score_cutoff)
Extract(q, keys, limit, cutoff) == Slice(Ranked(q, keys, 100, cutoff), limit)

\* _get_candidates_from_fuzzy: (exercise_id, score) pairs, score in hundredths
GetCandidatesFromFuzzy(name, limit, score_threshold) ==
    LET matches == Extract(NormalizeName(name), CorpusKeys(exercises),
                           limit, score_threshold)
    IN  [i \in DOMAIN matches |->
            <<CorpusId(exercises, matches[i][1]), matches[i][2]>>]

\* mutant: the loop over fuzzy_matches without its break
AddFuzzyAll(ids, matches, i, target_count) ==
    ids \cup {matches[k][1] : k \in i..Len(matches)}

\* the loop over fuzzy_matches: add, then stop once there are enough
RECURSIVE AddFuzzy(_, _, _, _)
AddFuzzy(ids, matches, i, target_count) ==
    IF i > Len(matches) THEN ids
    ELSE LET more == ids \cup {matches[i][1]}
         IN  IF Cardinality(more) >= target_count THEN more
             ELSE AddFuzzy(more, matches, i + 1, target_count)

\* candidate_ids after the alias lookup and the fuzzy loop
CandidateIds(name, target_count) ==
    AddFuzzy(Range(GetCandidatesFromAliases(name)),
             GetCandidatesFromFuzzy(name, target_count * 2, ScoreThreshold),
             1, target_count)

\* list(candidate_ids) in a process that iterates str sets in `order`
ListOfSetIn(order, ids) ==
    LET In(id) == id \in ids IN SelectSeq(order, In)

\* list(candidate_ids): a set of str is iterated in the process's hash order
ListOfSet(ids) == ListOfSetIn(hashOrder, ids)

\* exercise.get(key, [])
GetTags(tags) == IF tags = AbsentTags THEN <<>> ELSE tags

\* mutant: the candidate dict carries the search_corpus key as its identifier
SummaryIdFromName(ex) ==
    [exercise_id |-> Lower(ex.name),
     name |-> ex.name,
     equipment |-> Join(GetTags(ex.equipments)),
     target_muscles |-> Join(GetTags(ex.targetMuscles)),
     body_parts |-> Join(GetTags(ex.bodyParts))]

\* the candidate dict built for one record
Summary(ex) ==
    [exercise_id |-> ex.exerciseId,
     name |-> ex.name,
     equipment |-> Join(GetTags(ex.equipments)),
     target_muscles |-> Join(GetTags(ex.targetMuscles)),
     body_parts |-> Join(GetTags(ex.bodyParts))]

\* mutant: candidate_ids is a list, the alias identifiers then the matches
SelectedIdsFromList(name, target_count) ==
    LET Known(id) == id \in DOMAIN exercises_by_id
        matches == GetCandidatesFromFuzzy(name, target_count * 2, ScoreThreshold)
    IN  SelectSeq(Slice(GetCandidatesFromAliases(name)
                            \o [i \in DOMAIN matches |-> matches[i][1]],
                        target_count),
                  Known)

\* mutant: list(candidate_ids) without the [:target_count]
SelectedIdsUnsliced(name, target_count) ==
    LET Known(id) == id \in DOMAIN exercises_by_id
    IN  SelectSeq(ListOfSet(CandidateIds(name, target_count)), Known)

\* for ex_id in list(candidate_ids)[:target_count]: if ex_id in exercises_by_id
SelectedIds(name, target_count) ==
    LET Known(id) == id \in DOMAIN exercises_by_id
    IN  SelectSeq(Slice(ListOfSet(CandidateIds(name, target_count)), target_count),
                  Known)

\* what _select_candidates returns when it returns
SelectCandidates(name, target_count) ==
    LET ids == SelectedIds(name, target_count)
    IN  [i \in DOMAIN ids |-> Summary(exercises_by_id[ids[i]])]

\* str(e) of the exception _select_candidates raises, NoneText if it returns:
\* None * 2 is a TypeError, ex["name"] of a record without it a KeyError
TypeErrorText == <<"unsupported operand type(s) for *: 'NoneType' and 'int'">>
KeyErrorText == <<"'name'">>

\* mutant: exercises_by_id[ex_id] without the test that ex_id is a key
SelectRaisesOnUnknown(name, target_count) ==
    IF target_count = NoneCount THEN TypeErrorText
    ELSE IF \E i \in DOMAIN exercises : exercises[i].name = AbsentText
         THEN KeyErrorText
    ELSE IF \E id \in Range(Slice(ListOfSet(CandidateIds(name, target_count)),
                                  target_count)) : id \notin DOMAIN exercises_by_id
         THEN <<"'unknown'">>
    ELSE NoneText

SelectRaises(name, target_count) ==
    IF target_count = NoneCount THEN TypeErrorText
    ELSE IF \E i \in DOMAIN exercises : exercises[i].name = AbsentText
         THEN KeyErrorText
    ELSE NoneText

(***************************************************************************)
(* Oracle adapter: _build_llm_prompt and the answers of the oracle         *)
(***************************************************************************)
\* the prompt: the user input and one numbered line per candidate
BuildLlmPrompt(user_input, cands) ==
    [user_input |-> user_input,
     candidates_text |->
        [i \in DOMAIN cands |->
            [index |-> i,
             exercise_id |-> cands[i].exercise_id,
             name |-> cands[i].name,
             equipment |-> cands[i].equipment,
             target_muscles |-> cands[i].target_muscles,
             body_parts |-> cands[i].body_parts]]]

\* what an answer is about, and how it is wrapped
AnswerCores ==
    { <<>>, <<"null">>, <<"NULL">>, <<"None">>, <<"zz">> } \cup Ids

Wrappings(t) ==
    { t,
      <<SP>> \o t \o <<SP>>,
      <<DQ>> \o t \o <<DQ>>,
      <<SQ>> \o t \o <<SQ>>,
      <<DQ, SQ>> \o t \o <<SQ, DQ>>,
      <<SQ, DQ>> \o t \o <<DQ, SQ>> }

\* response.choices[0].message.content, when it is a str
OracleContents == UNION {Wrappings(t) : t \in AnswerCores}

\* str(e) of the exceptions self.client.chat.completions.create raises
OracleFailures == { <<"Request timed out.">>, <<"insufficient_quota">> }

\* None.strip()
NoContentText == <<"'NoneType' object has no attribute 'strip'">>

NoAnswer == [kind |-> "none", text |-> NoneText]

(***************************************************************************)
(* Resolution orchestrator: resolve_exercise                               *)
(***************************************************************************)
NoResult == [resolution_method |-> "<no result>"]

NoMatchesResult ==
    [success |-> FALSE,
     error |-> <<"No matching exercises found in database">>,
     exercise_id |-> NoneText,
     exercise_name |-> NoneText,
     exercise_details |-> <<>>,
     resolution_method |-> "none",
     confidence_score |-> 0,
     candidates_count |-> 0,
     llm_response |-> AbsentText,
     user_input |-> AbsentText]

LlmNoMatchResult(cands, llm_response) ==
    [success |-> FALSE,
     error |-> <<"LLM could not find a suitable match">>,
     exercise_id |-> NoneText,
     exercise_name |-> NoneText,
     exercise_details |-> <<>>,
     resolution_method |-> "llm_no_match",
     confidence_score |-> 0,
     candidates_count |-> Len(cands),
     llm_response |-> llm_response,
     user_input |-> AbsentText]

\* mutant: the rejected identifier is left in the result
LlmInvalidResultKeepsId(cands, llm_response, exercise_id) ==
    [success |-> FALSE,
     error |-> <<"LLM returned invalid exercise_id: ">> \o exercise_id,
     exercise_id |-> exercise_id,
     exercise_name |-> NoneText,
     exercise_details |-> <<>>,
     resolution_method |-> "llm_invalid",
     confidence_score |-> 0,
     candidates_count |-> Len(cands),
     llm_response |-> llm_response,
     user_input |-> AbsentText]

LlmInvalidResult(cands, llm_response, exercise_id) ==
    [success |-> FALSE,
     error |-> <<"LLM returned invalid exercise_id: ">> \o exercise_id,
     exercise_id |-> NoneText,
     exercise_name |-> NoneText,
     exercise_details |-> <<>>,
     resolution_method |-> "llm_invalid",
     confidence_score |-> 0,
     candidates_count |-> Len(cands),
     llm_response |-> llm_response,
     user_input |-> AbsentText]

\* mutant: target muscles and body parts swapped
ExerciseDetailsSwapped(exercise) ==
    [target_muscles |-> GetTags(exercise.bodyParts),
     body_parts |-> GetTags(exercise.targetMuscles),
     equipment |-> GetTags(exercise.equipments),
     gif_url |-> IF exercise.gifUrl = AbsentText THEN <<>> ELSE exercise.gifUrl]

\* the "exercise_details" of a match
ExerciseDetails(exercise) ==
    [target_muscles |-> GetTags(exercise.targetMuscles),
     body_parts |-> GetTags(exercise.bodyParts),
     equipment |-> GetTags(exercise.equipments),
     gif_url |-> IF exercise.gifUrl = AbsentText THEN <<>> ELSE exercise.gifUrl]

\* mutant: the match names the first presented candidate, not the oracle's id
LlmMatchResultFirstCandidate(user_input, cands, exercise_id) ==
    LET exercise == exercises_by_id[exercise_id]
    IN  [success |-> TRUE,
         error |-> AbsentText,
         exercise_id |-> cands[1].exercise_id,
         exercise_name |-> exercise.name,
         exercise_details |-> <<ExerciseDetails(exercise)>>,
         resolution_method |-> "llm_match",
         confidence_score |-> MatchConfidence,
         candidates_count |-> Len(cands),
         llm_response |-> AbsentText,
         user_input |-> user_input]

LlmMatchResult(user_input, cands, exercise_id) ==
    LET exercise == exercises_by_id[exercise_id]
    IN  [success |-> TRUE,
         error |-> AbsentText,
         exercise_id |-> exercise_id,
         exercise_name |-> exercise.name,
         exercise_details |-> <<ExerciseDetails(exercise)>>,
         resolution_method |-> "llm_match",
         confidence_score |-> MatchConfidence,
         candidates_count |-> Len(cands),
         llm_response |-> AbsentText,
         user_input |-> user_input]

\* mutant: the except clause tags its dict "failed"
ErrorResultOtherTag(user_input, message) ==
    [success |-> FALSE,
     error |-> <<"Error resolving exercise: ">> \o message,
     exercise_id |-> NoneText,
     exercise_name |-> NoneText,
     exercise_details |-> <<>>,
     resolution_method |-> "failed",
     confidence_score |-> 0,
     candidates_count |-> AbsentCount,
     llm_response |-> AbsentText,
     user_input |-> user_input]

\* the dict of the except clause
ErrorResult(user_input, message) ==
    [success |-> FALSE,
     error |-> <<"Error resolving exercise: ">> \o message,
     exercise_id |-> NoneText,
     exercise_name |-> NoneText,
     exercise_details |-> <<>>,
     resolution_method |-> "error",
     confidence_score |-> 0,
     candidates_count |-> AbsentCount,
     llm_response |-> AbsentText,
     user_input |-> user_input]

\* how a stretch of the try body ends
Return(d) == [kind |-> "return", msg |-> NoneText, value |-> d]
Raise(message) == [kind |-> "raise", msg |-> message, value |-> NoResult]
Continue == [kind |-> "continue", msg |-> NoneText, value |-> NoResult]

\* mutant: no except clause, the exception leaves resolve_exercise
TryExceptLeaks(user_input, out) == out

\* mutant: the except clause reports the failure as a declined match
TryExceptAsNoMatch(user_input, out) ==
    IF out.kind = "raise"
    THEN [kind |-> "return", msg |-> out.msg,
          value |-> [ErrorResult(user_input, out.msg)
                        EXCEPT !.resolution_method = "llm_no_match"]]
    ELSE out

\* try: ... except Exception as e: return {...}
TryExcept(user_input, out) ==
    IF out.kind = "raise"
    THEN [kind |-> "return", msg |-> out.msg,
          value |-> ErrorResult(user_input, out.msg)]
    ELSE out

\* mutant: no `if not candidates` return
SelectStepNoEmptyCheck(name, count) ==
    IF SelectRaises(name, count) # NoneText
    THEN Raise(SelectRaises(name, count))
    ELSE Continue

\* Step 1 of the try body: the candidates, and the return when there are none
SelectStep(name, count) ==
    IF SelectRaises(name, count) # NoneText
    THEN Raise(SelectRaises(name, count))
    ELSE IF SelectCandidates(name, count) = <<>>
         THEN Return(NoMatchesResult)
    ELSE Continue

\* mutant: the comparison without .lower()
IsNullResponseCaseSensitive(llm_response) ==
    llm_response \in { <<"null">>, <<"none">>, <<>> }

\* llm_response.lower() in ["null", "none", ""]
IsNullResponse(llm_response) ==
    Lower(llm_response) \in { <<"null">>, <<"none">>, <<>> }

\* llm_response.strip('"').strip("'").strip()
CleanId(llm_response) ==
    Strip(Strip(Strip(llm_response, {DQ}), {SQ}), Whitespace)

\* the try body after the oracle has answered with `content`
ClassifyStep(user_input, cands, content) ==
    LET llm_response == Strip(content, Whitespace)
        exercise_id == CleanId(llm_response)
    IN  IF IsNullResponse(llm_response)
        THEN Return(LlmNoMatchResult(cands, llm_response))
        ELSE IF exercise_id \notin DOMAIN exercises_by_id
             THEN Return(LlmInvalidResult(cands, llm_response, exercise_id))
        ELSE Return(LlmMatchResult(user_input, cands, exercise_id))

(***************************************************************************)
(* The /resolve-exercise route                                             *)
(***************************************************************************)
NoResponse == [status |-> 0]

\* mutant: the route leaves user_input as resolve_exercise returned it
ResolveExerciseResponseKeepsInput(request_name, res) ==
    [status |-> 200,
     success |-> res.success,
     exercise_id |-> res.exercise_id,
     exercise_name |-> res.exercise_name,
     exercise_details |-> res.exercise_details,
     resolution_method |-> res.resolution_method,
     confidence_score |-> res.confidence_score,
     candidates_count |->
        IF res.candidates_count = AbsentCount THEN 0 ELSE res.candidates_count,
     user_input |-> res.user_input,
     error |-> IF res.error = AbsentText THEN NoneText ELSE res.error,
     timestamp_iso |-> <<"<utcnow>">>]

\* the result dict, user_input set by the route, through ResolveExerciseResponse
ResolveExerciseResponse(request_name, res) ==
    [status |-> 200,
     success |-> res.success,
     exercise_id |-> res.exercise_id,
     exercise_name |-> res.exercise_name,
     exercise_details |-> res.exercise_details,
     resolution_method |-> res.resolution_method,
     confidence_score |-> res.confidence_score,
     candidates_count |->
        IF res.candidates_count = AbsentCount THEN 0 ELSE res.candidates_count,
     user_input |-> request_name,
     error |-> IF res.error = AbsentText THEN NoneText ELSE res.error,
     timestamp_iso |-> <<"<utcnow>">>]

\* raise HTTPException(status_code=500, ...)
InternalServerError(message) ==
    [status |-> 500, detail |-> <<"Error resolving exercise: ">> \o message]

\* pydantic on ResolveExerciseRequest: exercise_name is a required str and any
\* str passes; candidate_count is absent, None, or an int with ge=3 and le=15
ValidRequest(name, raw) ==
    /\ name # AbsentText
    /\ \/ raw \in {AbsentCount, NoneCount}
       \/ raw \in MinCandidateCount..MaxCandidateCount

\* request.candidate_count of a validated request
ParsedCount(raw) == IF raw = AbsentCount THEN DefaultCandidateCount ELSE raw

\* FastAPI's answer to a body that fails validation
UnprocessableEntity == [status |-> 422]

(***************************************************************************)
(* The other routes                                                        *)
(***************************************************************************)
NoRequest == [route |-> "none"]

\* the body of a POST to /resolve-exercise or /exercises/candidates
ResolveExerciseRequest(route, name, raw) ==
    [route |-> route, exercise_name |-> name, candidate_count |-> raw]

\* mutant: _select_candidates is called without the request's candidate_count
GetCandidateExercisesDefaultCount(name, count) ==
    IF SelectRaises(name, DefaultCandidateCount) # NoneText
    THEN [status |-> 500,
          detail |-> <<"Error getting candidate exercises: ">>
                        \o SelectRaises(name, DefaultCandidateCount)]
    ELSE [status |-> 200, success |-> TRUE,
          candidates |-> SelectCandidates(name, DefaultCandidateCount)]

\* get_candidate_exercises: _select_candidates with the request's arguments
GetCandidateExercises(name, count) ==
    IF SelectRaises(name, count) # NoneText
    THEN [status |-> 500,
          detail |-> <<"Error getting candidate exercises: ">>
                        \o SelectRaises(name, count)]
    ELSE [status |-> 200, success |-> TRUE,
          candidates |-> SelectCandidates(name, count)]

\* get_exercise_details
GetExerciseDetails(exercise_id) ==
    IF exercise_id \notin DOMAIN exercises_by_id
    THEN [status |-> 404,
          detail |-> <<"Exercise with ID '">> \o exercise_id \o <<"' not found">>]
    ELSE [status |-> 200, success |-> TRUE,
          exercise |-> exercises_by_id[exercise_id]]

\* search_corpus[key] of search_exercises: the last record with that name
CorpusRecord(exs, key) ==
    exs[CHOOSE i \in DOMAIN exs :
            /\ Lower(exs[i].name) = key
            /\ \A j \in DOMAIN exs : Lower(exs[j].name) = key => j <= i]

\* the body search_exercises answers with for these matches
SearchResults(query, matches) ==
    LET results == [i \in DOMAIN matches |->
                        [exercise |-> CorpusRecord(exercises, matches[i][1]),
                         similarity_score |-> matches[i][2]]]
    IN  [status |-> 200, success |-> TRUE, query |-> query,
         results |-> results, count |-> Len(results)]

\* mutant: process.extract without limit=limit
SearchExercisesUnlimited(query, limit) ==
    IF \E i \in DOMAIN exercises : exercises[i].name = AbsentText
    THEN [status |-> 500,
          detail |-> <<"Error searching exercises: ">> \o KeyErrorText]
    ELSE SearchResults(query, Ranked(Lower(query), CorpusKeys(exercises),
                                     100, SearchCutoff))

\* search_exercises: similarity_score in hundredths
SearchExercises(query, limit) ==
    IF \E i \in DOMAIN exercises : exercises[i].name = AbsentText
    THEN [status |-> 500,
          detail |-> <<"Error searching exercises: ">> \o KeyErrorText]
    ELSE SearchResults(query, Extract(Lower(query), CorpusKeys(exercises),
                                      limit, SearchCutoff))

\* the body of a POST to /enrich-workout-log
EnrichedWorkoutLogRequest(name, log) ==
    [route |-> "enrich", exercise_name |-> name, log |-> log]

\* mutant: the response counts the sets itself
EnrichedWorkoutLogResponseRecounted(log, resolution) ==
    [status |-> 200,
     action |-> log.action,
     exercise_id |-> resolution.exercise_id,
     exercise_name |-> resolution.exercise_name,
     exercise_details |-> resolution.exercise_details,
     sets |-> log.sets,
     set_count |-> Len(log.sets),
     pre_parsed_message |-> log.pre_parsed_message,
     used_fallback |-> (resolution.resolution_method = "llm_match"),
     resolution_method |-> resolution.resolution_method,
     confidence_score |-> resolution.confidence_score,
     timestamp_iso |-> <<"<utcnow>">>,
     error |-> IF resolution.success \/ resolution.error = AbsentText
               THEN NoneText ELSE resolution.error]

\* enrich_workout_log's response for the dict resolve_exercise returned
EnrichedWorkoutLogResponse(log, resolution) ==
    [status |-> 200,
     action |-> log.action,
     exercise_id |-> resolution.exercise_id,
     exercise_name |-> resolution.exercise_name,
     exercise_details |-> resolution.exercise_details,
     sets |-> log.sets,
     set_count |-> log.set_count,
     pre_parsed_message |-> log.pre_parsed_message,
     used_fallback |-> (resolution.resolution_method = "llm_match"),
     resolution_method |-> resolution.resolution_method,
     confidence_score |-> resolution.confidence_score,
     timestamp_iso |-> <<"<utcnow>">>,
     error |-> IF resolution.success \/ resolution.error = AbsentText
               THEN NoneText ELSE resolution.error]

\* raise HTTPException(status_code=500, ...) of enrich_workout_log
EnrichServerError(message) ==
    [status |-> 500, detail |-> <<"Error enriching workout log: ">> \o message]

(***************************************************************************)
(* Initial state: the singleton after construction                         *)
(***************************************************************************)
InitCatalog(srcs) ==
    /\ sources \in srcs
    /\ loadError = LoadDatabases(sources).error
    /\ alias_index = LoadDatabases(sources).alias_index
    /\ exercises = LoadDatabases(sources).exercises
    /\ exercises_by_id = LoadDatabases(sources).exercises_by_id
    /\ hashOrder \in IF loadError = NoneText THEN Perms(StoredIds(sources))
                     ELSE {<<>>}

InitCalls ==
    /\ request = [c \in Calls |-> NoRequest]
    /\ pc = [c \in Calls |-> "idle"]
    /\ exercise_name = [c \in Calls |-> AbsentText]
    /\ candidate_count = [c \in Calls |-> AbsentCount]
    /\ candidates = [c \in Calls |-> <<>>]
    /\ sent = [c \in Calls |-> <<>>]
    /\ answer = [c \in Calls |-> NoAnswer]
    /\ raised = [c \in Calls |-> NoneText]
    /\ result = [c \in Calls |-> NoResult]
    /\ response = [c \in Calls |-> NoResponse]

\* an instance exists only if __init__ returned; one request at a time
Init ==
    /\ InitCatalog(CatalogSources)
    /\ workers = IF loadError = NoneText THEN {1} ELSE {}
    /\ InitCalls

(***************************************************************************)
(* Steps of one request                                                    *)
(***************************************************************************)
\* where a stretch of resolve_exercise that ended with `out` leaves the call
Leave(c, out) ==
    /\ pc' = [pc EXCEPT ![c] =
                CASE out.kind = "return" -> "returned"
                  [] out.kind = "raise" -> "raised"
                  [] OTHER -> "selected"]
    /\ raised' = [raised EXCEPT ![c] = out.msg]
    /\ result' = [result EXCEPT ![c] = out.value]

\* mutant: the fuzzy matches are appended to the list the alias index holds
AliasIndexExtended(name, count) ==
    IF NormalizeName(name) \in DOMAIN alias_index /\ SelectRaises(name, count) = NoneText
    THEN [alias_index EXCEPT ![NormalizeName(name)] =
            @ \o [i \in DOMAIN GetCandidatesFromFuzzy(name, count * 2, ScoreThreshold) |->
                    GetCandidatesFromFuzzy(name, count * 2, ScoreThreshold)[i][1]]]
    ELSE alias_index

\* self.alias_index once _select_candidates is over: candidate_ids.update(
\* alias_ids) copies the identifiers into the local set and writes nothing
AliasIndexAfterSelect(name, count) == alias_index

\* resolve_exercise(name, count) is called and selects its candidates
Select(c, name, count) ==
    /\ pc[c] = "idle"
    /\ exercise_name' = [exercise_name EXCEPT ![c] = name]
    /\ candidate_count' = [candidate_count EXCEPT ![c] = count]
    /\ LET out == TryExcept(name, SelectStep(name, count))
       IN  /\ Leave(c, out)
           /\ candidates' = [candidates EXCEPT ![c] =
                                IF SelectRaises(name, count) # NoneText THEN <<>>
                                ELSE <<SelectCandidates(name, count)>>]
    /\ alias_index' = AliasIndexAfterSelect(name, count)
    /\ UNCHANGED <<exercises, exercises_by_id, hashOrder, workers, sources,
                   loadError, sent, answer, response>>

\* POST /resolve-exercise with a body that passes validation
Resolve(c, name, raw) ==
    /\ ValidRequest(name, raw)
    /\ request' = [request EXCEPT ![c] = ResolveExerciseRequest("resolve", name, raw)]
    /\ Select(c, name, ParsedCount(raw))

\* POST /enrich-workout-log
Enrich(c, name, log) ==
    /\ request' = [request EXCEPT ![c] = EnrichedWorkoutLogRequest(name, log)]
    /\ Select(c, name, EnrichCandidateCount)

\* POST /resolve-exercise or /exercises/candidates with a body that fails
\* validation: the handler is not called
Reject(c, route, name, raw) ==
    /\ pc[c] = "idle"
    /\ ~ValidRequest(name, raw)
    /\ request' = [request EXCEPT ![c] = ResolveExerciseRequest(route, name, raw)]
    /\ pc' = [pc EXCEPT ![c] = "responded"]
    /\ response' = [response EXCEPT ![c] = UnprocessableEntity]
    /\ UNCHANGED <<catalogVars, exercise_name, candidate_count, candidates,
                   sent, answer, raised, result>>

\* POST /exercises/candidates with a body that passes validation
ListCandidates(c, name, raw) ==
    /\ pc[c] = "idle"
    /\ ValidRequest(name, raw)
    /\ request' = [request EXCEPT ![c] = ResolveExerciseRequest("candidates", name, raw)]
    /\ pc' = [pc EXCEPT ![c] = "responded"]
    /\ response' = [response EXCEPT ![c] =
                      GetCandidateExercises(name, ParsedCount(raw))]
    /\ alias_index' = AliasIndexAfterSelect(name, ParsedCount(raw))
    /\ UNCHANGED <<exercises, exercises_by_id, hashOrder, workers, sources,
                   loadError, exercise_name, candidate_count, candidates,
                   sent, answer, raised, result>>

\* GET /exercises/{exercise_id}
GetExercise(c, exercise_id) ==
    /\ pc[c] = "idle"
    /\ request' = [request EXCEPT ![c] = [route |-> "get", exercise_id |-> exercise_id]]
    /\ pc' = [pc EXCEPT ![c] = "responded"]
    /\ response' = [response EXCEPT ![c] = GetExerciseDetails(exercise_id)]
    /\ UNCHANGED <<catalogVars, exercise_name, candidate_count, candidates,
                   sent, answer, raised, result>>

\* GET /exercises/search/{query}?limit=
Search(c, query, limit) ==
    /\ pc[c] = "idle"
    /\ request' = [request EXCEPT ![c] =
                     [route |-> "search", query |-> query, limit |-> limit]]
    /\ pc' = [pc EXCEPT ![c] = "responded"]
    /\ response' = [response EXCEPT ![c] = SearchExercises(query, limit)]
    /\ UNCHANGED <<catalogVars, exercise_name, candidate_count, candidates,
                   sent, answer, raised, result>>

\* mutant: the candidates are kept on the singleton, where the first slot's
\* selection is what every call reads
SharedCandidates(c) == IF candidates[1] # <<>> THEN candidates[1][1] ELSE candidates[c][1]

\* the local `candidates` of the call
LocalCandidates(c) == candidates[c][1]

\* mutant: the oracle is asked again when the call to it raised
OracleRaisesRetried(message) == Continue

\* client.chat.completions.create raises: nothing in the try body catches it
OracleRaises(message) == Raise(message)

\* Step 2: the prompt is built and handed to the oracle
CallOracle(c) ==
    /\ pc[c] = "selected"
    /\ pc' = [pc EXCEPT ![c] = "awaiting"]
    /\ sent' = [sent EXCEPT ![c] =
                  Append(@, BuildLlmPrompt(exercise_name[c], LocalCandidates(c)))]
    /\ UNCHANGED <<catalogVars, request, exercise_name, candidate_count,
                   candidates, answer, raised, result, response>>

\* the oracle answers with a text
OracleAnswer(c, content) ==
    /\ pc[c] = "awaiting"
    /\ answer' = [answer EXCEPT ![c] = [kind |-> "content", text |-> content]]
    /\ Leave(c, TryExcept(exercise_name[c],
                          ClassifyStep(exercise_name[c], LocalCandidates(c), content)))
    /\ UNCHANGED <<catalogVars, request, exercise_name, candidate_count,
                   candidates, sent, response>>

\* the oracle answers with no content: message.content is None
OracleNoContent(c) ==
    /\ pc[c] = "awaiting"
    /\ answer' = [answer EXCEPT ![c] = [kind |-> "no_content", text |-> NoneText]]
    /\ Leave(c, TryExcept(exercise_name[c], Raise(NoContentText)))
    /\ UNCHANGED <<catalogVars, request, exercise_name, candidate_count,
                   candidates, sent, response>>

\* the oracle call fails: network error, timeout, quota
OracleFail(c, message) ==
    /\ pc[c] = "awaiting"
    /\ answer' = [answer EXCEPT ![c] = [kind |-> "failure", text |-> message]]
    /\ Leave(c, TryExcept(exercise_name[c], OracleRaises(message)))
    /\ UNCHANGED <<catalogVars, request, exercise_name, candidate_count,
                   candidates, sent, response>>

\* the route answers: the response model, or a 500 if resolve_exercise raised
RouteRespond(c) ==
    /\ pc[c] \in {"returned", "raised"}
    /\ pc' = [pc EXCEPT ![c] = "responded"]
    /\ response' = [response EXCEPT ![c] =
                      IF request[c].route = "enrich"
                      THEN IF pc[c] = "raised" THEN EnrichServerError(raised[c])
                           ELSE EnrichedWorkoutLogResponse(request[c].log, result[c])
                      ELSE IF pc[c] = "raised" THEN InternalServerError(raised[c])
                      ELSE ResolveExerciseResponse(request[c].exercise_name, result[c])]
    /\ UNCHANGED <<catalogVars, request, exercise_name, candidate_count,
                   candidates, sent, answer, raised, result>>

\* the request is over and its locals are gone
Finish(c) ==
    /\ pc[c] = "responded"
    /\ pc' = [pc EXCEPT ![c] = "idle"]
    /\ request' = [request EXCEPT ![c] = NoRequest]
    /\ exercise_name' = [exercise_name EXCEPT ![c] = AbsentText]
    /\ candidate_count' = [candidate_count EXCEPT ![c] = AbsentCount]
    /\ candidates' = [candidates EXCEPT ![c] = <<>>]
    /\ sent' = [sent EXCEPT ![c] = <<>>]
    /\ answer' = [answer EXCEPT ![c] = NoAnswer]
    /\ raised' = [raised EXCEPT ![c] = NoneText]
    /\ result' = [result EXCEPT ![c] = NoResult]
    /\ response' = [response EXCEPT ![c] = NoResponse]
    /\ UNCHANGED catalogVars

Next ==
    \/ \E c \in workers, name \in RequestNames, raw \in RequestCounts :
            Resolve(c, name, raw)
    \/ \E c \in workers, name \in EnrichNames, log \in WorkoutLogs :
            Enrich(c, name, log)
    \/ \E c \in workers, route \in {"resolve", "candidates"},
          name \in RequestNames, raw \in RequestCounts :
            Reject(c, route, name, raw)
    \/ \E c \in workers, name \in RequestNames, raw \in RequestCounts :
            ListCandidates(c, name, raw)
    \/ \E c \in workers, exercise_id \in RequestIds : GetExercise(c, exercise_id)
    \/ \E c \in workers, query \in SearchQueries, limit \in SearchLimits :
            Search(c, query, limit)
    \/ \E c \in workers : CallOracle(c)
    \/ \E c \in workers, content \in OracleContents : OracleAnswer(c, content)
    \/ \E c \in workers : OracleNoContent(c)
    \/ \E c \in workers, message \in OracleFailures : OracleFail(c, message)
    \/ \E c \in workers : RouteRespond(c)
    \/ \E c \in workers : Finish(c)

Spec == Init /\ [][Next]_vars

(***************************************************************************)
(* Progress: a handler runs on once it has started, and the call to the    *)
(* oracle ends, with a completion or with an exception                     *)
(***************************************************************************)
OracleEnds(c) ==
    \/ \E content \in OracleContents : OracleAnswer(c, content)
    \/ OracleNoContent(c)
    \/ \E message \in OracleFailures : OracleFail(c, message)

Fairness ==
    \A c \in Calls :
        /\ WF_vars(CallOracle(c))
        /\ WF_vars(OracleEnds(c))
        /\ WF_vars(RouteRespond(c))

\* the files of the runs checked for progress
LiveSources ==
    { Source("ok", (<<"bench">> :> <<IdA>>), "ok", <<ExA, ExB, ExC>>),
      Source("ok", <<>>, "ok", <<ExA, ExNameless>>),
      Source("ok", <<>>, "ok", <<>>) }

InitLive ==
    /\ InitCatalog(LiveSources)
    /\ workers = {1}
    /\ InitCalls

SpecLive == InitLive /\ [][Next]_vars /\ Fairness

(***************************************************************************)
(* Requests served at the same time: both slots in use, over one catalog   *)
(***************************************************************************)
ConcSources ==
    { Source("ok",
             (<<"bench">> :> <<IdC, IdB, IdNone>>) @@ (<<"squat">> :> <<IdC, IdC>>),
             "ok", <<ExA, ExB, ExC, ExNone>>) }

ConcNames == { <<"bench">>, <<"Squat">> }

ConcCounts == { MinCandidateCount }

ConcContents == { IdA, <<DQ, "zz", DQ>> }

ConcFailures == { <<"Request timed out.">> }

InitConc ==
    /\ InitCatalog(ConcSources)
    /\ workers = Calls
    /\ InitCalls

NextConc ==
    \/ \E c \in workers, name \in ConcNames, raw \in ConcCounts :
            Resolve(c, name, raw)
    \/ \E c \in workers, name \in ConcNames, raw \in ConcCounts :
            ListCandidates(c, name, raw)
    \/ \E c \in workers : CallOracle(c)
    \/ \E c \in workers, content \in ConcContents : OracleAnswer(c, content)
    \/ \E c \in workers : OracleNoContent(c)
    \/ \E c \in workers, message \in ConcFailures : OracleFail(c, message)
    \/ \E c \in workers : RouteRespond(c)
    \/ \E c \in workers : Finish(c)

SpecConc == InitConc /\ [][NextConc]_vars

(***************************************************************************)
(* Vocabulary of the properties                                            *)
(***************************************************************************)
\* resolve_exercise has returned its dict
Returned(c) == pc[c] \in {"returned", "responded"} /\ result[c] # NoResult

\* the route answered the request of the slot with its 200 body
Answered200(c, route) ==
    /\ pc[c] = "responded"
    /\ request[c].route = route
    /\ response[c].status = 200

\* the candidates of the call, once selection returned them
Selected(c) == candidates[c] # <<>>
Presented(c) == IF Selected(c) THEN candidates[c][1] ELSE <<>>
PresentedIds(c) == {Presented(c)[i].exercise_id : i \in DOMAIN Presented(c)}

\* the oracle answered the call with a text
Answered(c) == answer[c].kind = "content"

\* the number of distinct candidates in the prompts handed to the oracle
PromptCount(c) ==
    Cardinality(UNION {{sent[c][k].candidates_text[i].exercise_id :
                            i \in DOMAIN sent[c][k].candidates_text} :
                        k \in DOMAIN sent[c]})

EndsWith(t, suffix) ==
    /\ Len(suffix) <= Len(t)
    /\ SubSeq(t, Len(t) - Len(suffix) + 1, Len(t)) = suffix

\* the words with which the oracle declines, in lower case
NullWords == { <<"null">>, <<"none">>, <<>> }

\* a text without its surrounding whitespace and quotes
Unwrapped(t) == Strip(t, Whitespace \cup {DQ, SQ})

ResolutionMethods == {"none", "llm_no_match", "llm_invalid", "llm_match", "error"}

\* success false, no identifier, confidence 0.0
Unresolved(res) ==
    /\ res.success = FALSE
    /\ res.exercise_id = NoneText
    /\ res.confidence_score = 0

(***************************************************************************)
(* C1: resolve always returns a result record and never raises; an         *)
(* exception raised while selecting candidates, calling the oracle or      *)
(* parsing its answer gives resolution_method "error", success false,      *)
(* exercise_id null, confidence 0.0 and an error that carries the          *)
(* exception's message.                                                    *)
(***************************************************************************)
C1_NeverRaises ==
    \A c \in Calls :
        /\ pc[c] # "raised"
        /\ Returned(c) => result[c].resolution_method \in ResolutionMethods
        /\ (Returned(c) /\ raised[c] # NoneText) =>
              /\ result[c].resolution_method = "error"
              /\ Unresolved(result[c])
              /\ EndsWith(result[c].error, raised[c])
        /\ (Returned(c) /\ answer[c].kind \in {"failure", "no_content"}) =>
              raised[c] # NoneText
        /\ (Returned(c) /\ ~Selected(c)) => raised[c] # NoneText

C1_Witness ==
    \E c \in Calls :
        /\ pc[c] = "responded"
        /\ answer[c].kind = "no_content"
        /\ result[c].resolution_method = "error"

(***************************************************************************)
(* C2: every returned result has one of the five resolution methods;       *)
(* success holds exactly for llm_match, exercise_id is non-null exactly    *)
(* for llm_match, confidence is 0.85 for llm_match and 0.0 otherwise.      *)
(***************************************************************************)
C2_FiveStates ==
    \A c \in Calls :
        Returned(c) =>
            LET res == result[c]
                match == res.resolution_method = "llm_match"
            IN  /\ res.resolution_method \in ResolutionMethods
                /\ res.success = match
                /\ (res.exercise_id # NoneText) = match
                /\ res.confidence_score = IF match THEN MatchConfidence ELSE 0

C2_Witness ==
    \E c \in Calls :
        /\ Returned(c)
        /\ result[c].resolution_method = "llm_match"
        /\ result[c].exercise_id \in Ids

(***************************************************************************)
(* C3: when candidate selection returns an empty sequence, resolve returns *)
(* "none" with success false, confidence 0.0 and candidates_count 0, and   *)
(* the oracle is not invoked in that call.                                 *)
(***************************************************************************)
C3_NoCandidatesNoOracle ==
    \A c \in Calls :
        (Selected(c) /\ Presented(c) = <<>>) =>
            /\ Returned(c)
            /\ result[c].resolution_method = "none"
            /\ result[c].success = FALSE
            /\ result[c].confidence_score = 0
            /\ result[c].candidates_count = 0
            /\ sent[c] = <<>>
            /\ answer[c] = NoAnswer

C3_Witness ==
    \E c \in Calls :
        /\ pc[c] = "responded"
        /\ Selected(c)
        /\ Presented(c) = <<>>
        /\ exercise_name[c] = <<"zzz">>

(***************************************************************************)
(* C4: with a non-empty candidate list, when the oracle returns the        *)
(* identifier of one of the presented candidates, resolve returns          *)
(* "llm_match": success, that identifier, confidence 0.85, and the name    *)
(* and details of the catalog record stored under it.                      *)
(***************************************************************************)
\* the result of a match on `id`
IsMatchOn(res, id) ==
    /\ res.resolution_method = "llm_match"
    /\ res.success = TRUE
    /\ res.exercise_id = id
    /\ res.confidence_score = MatchConfidence
    /\ res.exercise_name = exercises_by_id[id].name
    /\ res.exercise_details =
          << [target_muscles |-> GetTags(exercises_by_id[id].targetMuscles),
              body_parts |-> GetTags(exercises_by_id[id].bodyParts),
              equipment |-> GetTags(exercises_by_id[id].equipments),
              gif_url |-> IF exercises_by_id[id].gifUrl = AbsentText THEN <<>>
                          ELSE exercises_by_id[id].gifUrl] >>

\* an identifier that is no declining word and that cleaning leaves as it is
PlainId(id) ==
    /\ Lower(id) \notin NullWords
    /\ Head(id) \notin Whitespace \cup {DQ, SQ}
    /\ id[Len(id)] \notin Whitespace \cup {DQ, SQ}

\* C4 as stated: any identifier of a presented candidate
C4_AnyPresentedId ==
    \A c \in Calls :
        (Returned(c) /\ Answered(c) /\ answer[c].text \in PresentedIds(c)) =>
            IsMatchOn(result[c], answer[c].text)

\* C4, amended: the identifier is not "null"/"none"/empty in any letter case
\* and has no whitespace or quote at either end
C4_PlainPresentedId ==
    \A c \in Calls :
        (/\ Returned(c)
         /\ Answered(c)
         /\ answer[c].text \in PresentedIds(c)
         /\ PlainId(answer[c].text)) =>
            IsMatchOn(result[c], answer[c].text)

C4_Witness ==
    \E c \in Calls :
        /\ Returned(c)
        /\ Answered(c)
        /\ answer[c].text \in PresentedIds(c)
        /\ PlainId(answer[c].text)
        /\ result[c].exercise_id = IdC
        /\ result[c].exercise_details[1].body_parts = <<>>

(***************************************************************************)
(* C5: with a non-empty candidate list, when the oracle returns an         *)
(* identifier that is no key of the catalog index, resolve returns         *)
(* "llm_invalid" with success false, confidence 0.0 and exercise_id null;  *)
(* an unknown identifier never becomes exercise_id.  The identifier the    *)
(* oracle returns is its answer without surrounding whitespace and         *)
(* quotes, when that is not one of the declining words.                    *)
(***************************************************************************)
C5_UnknownIdRejected ==
    \A c \in Calls :
        /\ (/\ Returned(c)
            /\ Answered(c)
            /\ Presented(c) # <<>>
            /\ Lower(Unwrapped(answer[c].text)) \notin NullWords
            /\ Unwrapped(answer[c].text) \notin DOMAIN exercises_by_id) =>
                /\ result[c].resolution_method = "llm_invalid"
                /\ Unresolved(result[c])
        /\ Returned(c) =>
              \/ result[c].exercise_id = NoneText
              \/ result[c].exercise_id \in DOMAIN exercises_by_id

C5_Witness ==
    \E c \in Calls :
        /\ Returned(c)
        /\ Answered(c)
        /\ Presented(c) # <<>>
        /\ answer[c].text = <<DQ, "zz", DQ>>
        /\ result[c].resolution_method = "llm_invalid"

(***************************************************************************)
(* C6: with a non-empty candidate list, when the oracle returns "null" in  *)
(* any letter case, or the empty string, resolve returns "llm_no_match"    *)
(* with success false, confidence 0.0 and exercise_id null.                *)
(***************************************************************************)
C6_NullIsNoMatch ==
    \A c \in Calls :
        (/\ Returned(c)
         /\ Answered(c)
         /\ Presented(c) # <<>>
         /\ (Lower(answer[c].text) = <<"null">> \/ answer[c].text = <<>>)) =>
            /\ result[c].resolution_method = "llm_no_match"
            /\ Unresolved(result[c])

C6_Witness ==
    \E c \in Calls :
        /\ Returned(c)
        /\ Presented(c) # <<>>
        /\ Answered(c)
        /\ answer[c].text = <<"NULL">>

(***************************************************************************)
(* C7: the raw answer is stripped of surrounding whitespace and quotes     *)
(* before it is classified: every answer whose cleaned text is "null",     *)
(* "none" (any letter case) or empty gives "llm_no_match", also when the   *)
(* word is wrapped in single or double quotes; only other cleaned texts    *)
(* are treated as an identifier.                                           *)
(***************************************************************************)
C7_CleanedBeforeClassified ==
    \A c \in Calls :
        (Returned(c) /\ Answered(c) /\ Presented(c) # <<>>) =>
            (Lower(Unwrapped(answer[c].text)) \in NullWords
                <=> result[c].resolution_method = "llm_no_match")

(***************************************************************************)
(* C8: a failed oracle call gives "error" with an error message, never     *)
(* "llm_no_match", "llm_invalid" or "none"; "none" is reported only when   *)
(* no candidates existed, "llm_no_match" and "llm_invalid" only when the   *)
(* oracle answered.                                                        *)
(***************************************************************************)
C8_FailureIsError ==
    \A c \in Calls :
        Returned(c) =>
            /\ answer[c].kind = "failure" =>
                  /\ result[c].resolution_method = "error"
                  /\ result[c].error \notin {NoneText, AbsentText, <<>>}
                  /\ EndsWith(result[c].error, answer[c].text)
            /\ result[c].resolution_method = "none" =>
                  (Selected(c) /\ Presented(c) = <<>> /\ answer[c] = NoAnswer)
            /\ result[c].resolution_method \in {"llm_no_match", "llm_invalid"} =>
                  (Answered(c) /\ Presented(c) # <<>>)

C8_Witness ==
    \E c \in Calls :
        /\ Returned(c)
        /\ answer[c] = [kind |-> "failure", text |-> <<"Request timed out.">>]
        /\ result[c].resolution_method = "error"

(***************************************************************************)
(* C9: in every returned result, in all five states, candidates_count is   *)
(* present and equals the number of distinct candidates put into the       *)
(* prompt sent to the oracle in that call (0 when no prompt is sent).      *)
(* Read on the response of the route, where a result without the key has   *)
(* the response model's default.                                           *)
(***************************************************************************)
C9_CountIsPromptCount ==
    \A c \in Calls :
        Answered200(c, "resolve") =>
            response[c].candidates_count = PromptCount(c)

(***************************************************************************)
(* C10: for every query, catalog and alias index and every targetCount in  *)
(* 3..15, selectCandidates returns at most targetCount candidates.         *)
(***************************************************************************)
C10_AtMostTargetCount ==
    \A c \in Calls :
        (Selected(c) /\ candidate_count[c] \in MinCandidateCount..MaxCandidateCount) =>
            Len(Presented(c)) <= candidate_count[c]

\* more identifiers were collected than asked for, and the list was cut
C10_Witness ==
    \E c \in Calls :
        /\ Selected(c)
        /\ candidate_count[c] = MinCandidateCount
        /\ Cardinality(CandidateIds(exercise_name[c], candidate_count[c]))
              > candidate_count[c]
        /\ Len(Presented(c)) = candidate_count[c]


\* the identifiers of the presented candidates, in the order presented
PresentedIdSeq(c) == [i \in DOMAIN Presented(c) |-> Presented(c)[i].exercise_id]

\* a sequence without the repeats of its elements
RECURSIVE FirstOccurrences(_)
FirstOccurrences(s) ==
    IF s = <<>> THEN <<>>
    ELSE LET front == FirstOccurrences(SubSeq(s, 1, Len(s) - 1))
         IN  IF s[Len(s)] \in Range(front) THEN front
             ELSE Append(front, s[Len(s)])

\* the identifiers the alias index lists for the call's name and the catalog
\* holds, in the order of the alias list
AliasedKnown(c) ==
    LET Known(id) == id \in DOMAIN exercises_by_id
        listed == IF NormalizeName(exercise_name[c]) \in DOMAIN alias_index
                  THEN alias_index[NormalizeName(exercise_name[c])]
                  ELSE <<>>
    IN  SelectSeq(FirstOccurrences(listed), Known)

(***************************************************************************)
(* C11: when the normalized name is a key of the alias index, the          *)
(* candidate sequence lists every aliased identifier of the catalog before *)
(* any identifier found by fuzzy search only, and the aliased identifiers  *)
(* stand in the order of the alias list.                                   *)
(***************************************************************************)
C11_AliasesFirstInOrder ==
    \A c \in Calls :
        (Selected(c) /\ NormalizeName(exercise_name[c]) \in DOMAIN alias_index) =>
            /\ Len(AliasedKnown(c)) <= Len(PresentedIdSeq(c))
            /\ SubSeq(PresentedIdSeq(c), 1, Len(AliasedKnown(c))) = AliasedKnown(c)


\* the slot serves a POST whose body is a ResolveExerciseRequest
HasResolveBody(c) == request[c].route \in {"resolve", "candidates"}

(***************************************************************************)
(* C12: a resolve or listCandidates request whose candidateCount is null   *)
(* or an integer outside 3..15, or whose exercise name is empty or         *)
(* missing, is answered with a validation error before any candidate is    *)
(* selected: no candidates are selected for it and it has no result, be it *)
(* 'none', 'error' or any other.  (A request without candidateCount takes  *)
(* the default 7 and is not among these.)                                  *)
(***************************************************************************)
C12_InvalidRejected ==
    \A c \in Calls :
        ( /\ HasResolveBody(c)
          /\ \/ request[c].candidate_count = NoneCount
             \/ /\ request[c].candidate_count # AbsentCount
                /\ request[c].candidate_count \notin MinCandidateCount..MaxCandidateCount
             \/ request[c].exercise_name \in {<<>>, AbsentText} ) =>
            /\ ~Selected(c)
            /\ result[c] = NoResult
            /\ pc[c] = "responded" /\ response[c] = UnprocessableEntity


\* the keys of the id -> record map
CatalogKeys == DOMAIN exercises_by_id

(***************************************************************************)
(* C13: every identifier in a candidate summary returned by                *)
(* selectCandidates or listCandidates, and every non-null exercise_id of a *)
(* result of resolve, is a key of the catalog; an oracle answer that is    *)
(* not a key gives a result without identifier.                            *)
(***************************************************************************)
C13_IdsAreCatalogKeys ==
    \A c \in Calls :
        /\ Selected(c) => PresentedIds(c) \subseteq CatalogKeys
        /\ Answered200(c, "candidates") =>
              \A i \in DOMAIN response[c].candidates :
                  response[c].candidates[i].exercise_id \in CatalogKeys
        /\ Returned(c) => result[c].exercise_id \in CatalogKeys \cup {NoneText}
        /\ Answered200(c, "resolve") =>
              response[c].exercise_id \in CatalogKeys \cup {NoneText}
        /\ (Returned(c) /\ Answered(c) /\ Unwrapped(answer[c].text) \notin CatalogKeys) =>
              result[c].exercise_id = NoneText

\* the alias list names an identifier the catalog lacks, candidates were
\* presented, and the oracle answered with that identifier
C13_Witness ==
    \E c \in Calls :
        /\ Returned(c)
        /\ Presented(c) # <<>>
        /\ Answered(c)
        /\ answer[c].text \notin CatalogKeys
        /\ answer[c].text \in Range(GetCandidatesFromAliases(exercise_name[c]))
        /\ result[c].resolution_method = "llm_invalid"


(***************************************************************************)
(* C14: once the catalog is loaded, no sequence of resolve,                *)
(* listCandidates, getById, searchByName and enrich-workout-log calls      *)
(* changes the alias index, the exercise list or the id -> record map:     *)
(* they stay what the load made of the files.                              *)
(***************************************************************************)
C14_CatalogReadOnly ==
    loadError = NoneText =>
        /\ alias_index = LoadDatabases(sources).alias_index
        /\ exercises = LoadDatabases(sources).exercises
        /\ exercises_by_id = LoadDatabases(sources).exercises_by_id

\* candidates were selected through the alias list and through fuzzy search
C14_Witness ==
    \E c \in Calls :
        /\ Answered200(c, "candidates")
        /\ GetCandidatesFromAliases(request[c].exercise_name) # <<>>
        /\ Len(response[c].candidates) >
              Len(FirstOccurrences(GetCandidatesFromAliases(request[c].exercise_name)))


\* the dict resolve_exercise(name, count) returns when it is the only call,
\* has selected `cands` and the oracle does `ans`
AloneResult(name, count, cands, ans) ==
    LET selection == TryExcept(name, SelectStep(name, count))
    IN  IF selection.kind = "return" THEN selection.value
        ELSE IF ans.kind = "content"
             THEN TryExcept(name, ClassifyStep(name, cands, ans.text)).value
        ELSE IF ans.kind = "no_content"
             THEN TryExcept(name, Raise(NoContentText)).value
        ELSE TryExcept(name, Raise(ans.text)).value

(***************************************************************************)
(* C15: with resolve calls in progress at the same time, in any            *)
(* interleaving, the candidates, the prompt and the result of each call    *)
(* are those of the same call made alone with the same name, count and     *)
(* oracle answer: nothing of another call shows in them.                   *)
(***************************************************************************)
C15_CallsAreIsolated ==
    \A c \in Calls :
        (pc[c] # "idle" /\ request[c].route = "resolve") =>
            LET alone == SelectCandidates(exercise_name[c], candidate_count[c])
                res == AloneResult(exercise_name[c], candidate_count[c], alone,
                                   answer[c])
            IN  /\ Selected(c) => candidates[c][1] = alone
                /\ \A k \in DOMAIN sent[c] :
                      sent[c][k] = BuildLlmPrompt(exercise_name[c], alone)
                /\ Returned(c) => result[c] = res
                /\ Answered200(c, "resolve") =>
                      response[c] = ResolveExerciseResponse(request[c].exercise_name, res)

\* two calls with different names are both past the oracle
C15_Witness ==
    /\ pc[1] = "returned" /\ pc[2] = "returned"
    /\ exercise_name[1] # exercise_name[2]
    /\ Presented(1) # Presented(2)
    /\ Answered(1) /\ Answered(2)
    /\ result[1] # result[2]


(***************************************************************************)
(* C16: the load fails whenever the alias file or the exercise file is     *)
(* missing or malformed, or a record of the exercise file lacks its        *)
(* identifier or its name; so a loaded catalog is non-empty and each of    *)
(* its records has an identifier and a name.                               *)
(***************************************************************************)
C16_LoadFailsOnBadSource ==
    /\ ( \/ sources.alias_file # "ok"
         \/ sources.exercises_file # "ok"
         \/ \E i \in DOMAIN sources.exercises_json :
                \/ sources.exercises_json[i].exerciseId = AbsentText
                \/ sources.exercises_json[i].name = AbsentText ) =>
            loadError # NoneText
    /\ loadError = NoneText =>
            /\ exercises # <<>>
            /\ \A i \in DOMAIN exercises :
                    /\ exercises[i].exerciseId # AbsentText
                    /\ exercises[i].name # AbsentText


(***************************************************************************)
(* C17: within one resolve call the oracle is invoked at most once, and    *)
(* exactly once when selection returned a non-empty list; it is invoked    *)
(* only after selection has completed, with the selected candidates, and   *)
(* it is not invoked again after it failed.                                *)
(***************************************************************************)
C17_OracleAtMostOnce ==
    \A c \in Calls :
        /\ Len(sent[c]) <= 1
        /\ sent[c] # <<>> =>
              /\ Selected(c)
              /\ Presented(c) # <<>>
              /\ sent[c][1] = BuildLlmPrompt(exercise_name[c], Presented(c))
        /\ pc[c] = "awaiting" => Len(sent[c]) = 1
        /\ Returned(c) =>
              Len(sent[c]) = IF Selected(c) /\ Presented(c) # <<>> THEN 1 ELSE 0
        /\ answer[c].kind \in {"failure", "no_content"} =>
              Returned(c) /\ Len(sent[c]) = 1

\* the one invocation failed and the call returned
C17_Witness ==
    \E c \in Calls :
        /\ Returned(c)
        /\ answer[c].kind = "failure"
        /\ Len(sent[c]) = 1
        /\ result[c].resolution_method = "error"


(***************************************************************************)
(* C18: searchByName(query, limit) returns at most limit (record, score)   *)
(* pairs, ordered by non-increasing score, and every score lies in [0, 1]  *)
(* (0..100 in hundredths).                                                 *)
(***************************************************************************)
C18_SearchBoundedAndRanked ==
    \A c \in Calls :
        Answered200(c, "search") =>
            LET results == response[c].results
            IN  /\ Len(results) <= request[c].limit
                /\ response[c].count = Len(results)
                /\ \A i \in DOMAIN results :
                      /\ results[i].similarity_score \in 0..100
                      /\ results[i].exercise \in Range(exercises)
                /\ \A i, j \in DOMAIN results :
                      i < j => results[i].similarity_score >= results[j].similarity_score

\* more records match than the limit allows, and the ones returned differ
\* in score
C18_Witness ==
    \E c \in Calls :
        /\ Answered200(c, "search")
        /\ Len(response[c].results) = request[c].limit
        /\ Len(response[c].results) >= 2
        /\ response[c].results[1].similarity_score >
              response[c].results[2].similarity_score
        /\ Cardinality({i \in DOMAIN exercises :
                          WRatio(Lower(request[c].query), Lower(exercises[i].name))
                              >= SearchCutoff}) > request[c].limit


\* slot c lists the candidates for the name and count slot d resolves
SameArguments(c, d) ==
    /\ request[c].route = "candidates"
    /\ request[d].route = "resolve"
    /\ request[c].exercise_name = request[d].exercise_name
    /\ ParsedCount(request[c].candidate_count) = ParsedCount(request[d].candidate_count)

(***************************************************************************)
(* C19: listCandidates never invokes the oracle, and what it returns is    *)
(* exactly the candidate sequence resolve presents to the oracle for the   *)
(* same name and count over the same catalog.                              *)
(***************************************************************************)
C19_ListIsWhatResolvePresents ==
    \A c \in Calls :
        /\ request[c].route = "candidates" =>
              /\ sent[c] = <<>>
              /\ answer[c] = NoAnswer
              /\ result[c] = NoResult
        /\ \A d \in Calls :
              (Answered200(c, "candidates") /\ SameArguments(c, d) /\ Selected(d)) =>
                  /\ response[c].candidates = Presented(d)
                  /\ \A k \in DOMAIN sent[d] :
                        sent[d][k] = BuildLlmPrompt(request[d].exercise_name,
                                                    response[c].candidates)

\* one slot listed the candidates the other has handed to the oracle, after
\* the selection cut the collected identifiers down to the count asked for
C19_Witness ==
    \E c, d \in Calls :
        /\ Answered200(c, "candidates")
        /\ SameArguments(c, d)
        /\ Len(sent[d]) = 1
        /\ Len(response[c].candidates) = ParsedCount(request[c].candidate_count)
        /\ Cardinality(CandidateIds(request[c].exercise_name,
                                    ParsedCount(request[c].candidate_count)))
              > Len(response[c].candidates)


AliasedIds(c) == FirstOccurrences(GetCandidatesFromAliases(exercise_name[c]))

\* the call asked for an integer number of candidates
CountGiven(c) == candidate_count[c] \in MinCandidateCount..MaxCandidateCount

(***************************************************************************)
(* C21: when the alias lookup yields at least targetCount distinct         *)
(* identifiers, the candidates are those of the first targetCount alias    *)
(* identifiers that the catalog holds: no identifier found by fuzzy        *)
(* matching only is among them.                                            *)
(***************************************************************************)
C21_NoFuzzyWhenAliasesSuffice ==
    \A c \in Calls :
        (Selected(c) /\ CountGiven(c) /\ Len(AliasedIds(c)) >= candidate_count[c]) =>
            PresentedIds(c) =
                Range(Slice(AliasedIds(c), candidate_count[c])) \cap CatalogKeys


\* the (identifier, score) pairs _select_candidates gets for the call
FuzzyMatches(c) ==
    GetCandidatesFromFuzzy(exercise_name[c], candidate_count[c] * 2, ScoreThreshold)

\* the identifiers of the first n matches
MatchIds(matches, n) == {matches[i][1] : i \in 1..n}

(***************************************************************************)
(* C22: when the alias lookup yields fewer than targetCount identifiers,   *)
(* the fuzzy identifiers among the candidates are those of the shortest    *)
(* prefix of the match list (at most 2 x targetCount matches, best score   *)
(* first, each at least 50/100) that brings the set to targetCount         *)
(* members, or of the whole list when it runs out first; no candidate      *)
(* found by fuzzy matching only scores below 50/100.                       *)
(***************************************************************************)
C22_FuzzyPrefix ==
    \A c \in Calls :
        (Selected(c) /\ CountGiven(c) /\ Len(AliasedIds(c)) < candidate_count[c]) =>
            LET matches == FuzzyMatches(c)
                aliased == Range(AliasedIds(c))
                count == candidate_count[c]
            IN  /\ Len(matches) <= 2 * count
                /\ \A i \in DOMAIN matches : matches[i][2] >= 50
                /\ \A i, j \in DOMAIN matches : i < j => matches[i][2] >= matches[j][2]
                /\ \E n \in 0..Len(matches) :
                      /\ PresentedIds(c) =
                            (aliased \cup MatchIds(matches, n)) \cap CatalogKeys
                      /\ \/ n = Len(matches)
                         \/ Cardinality(aliased \cup MatchIds(matches, n)) = count
                      /\ n > 0 =>
                            Cardinality(aliased \cup MatchIds(matches, n - 1)) < count
                /\ \A id \in PresentedIds(c) \ aliased :
                      \E i \in DOMAIN exercises :
                          /\ exercises[i].exerciseId = id
                          /\ WRatio(NormalizeName(exercise_name[c]),
                                    Lower(exercises[i].name)) >= 50

\* the set was full before the match list ran out: a match is left out
C22_Witness ==
    \E c \in Calls :
        /\ Selected(c) /\ CountGiven(c)
        /\ AliasedIds(c) # <<>>
        /\ Len(AliasedIds(c)) < candidate_count[c]
        /\ Len(Presented(c)) = candidate_count[c]
        /\ \E i \in DOMAIN FuzzyMatches(c) : FuzzyMatches(c)[i][1] \notin PresentedIds(c)


\* the identifiers the alias index lists for the name but the catalog lacks
GhostIds(name) == Range(GetCandidatesFromAliases(name)) \ CatalogKeys

\* every record of the catalog has a name: fuzzy matching can run
AllNamed == \A i \in DOMAIN exercises : exercises[i].name # AbsentText

(***************************************************************************)
(* C23: an identifier the alias index maps the query to but the catalog    *)
(* does not hold is dropped silently by selectCandidates: it is not in the *)
(* returned sequence, the selection raises nothing, and the other          *)
(* identifiers of the cut list are projected into the summaries of their   *)
(* records.                                                                *)
(***************************************************************************)
C23_GhostIdsDropped ==
    \A c \in Calls :
        /\ ( /\ pc[c] # "idle" /\ request[c].route \in {"resolve", "enrich"}
             /\ CountGiven(c) /\ AllNamed
             /\ GhostIds(exercise_name[c]) # {} ) =>
              /\ Selected(c)
              /\ PresentedIds(c) \cap GhostIds(exercise_name[c]) = {}
              /\ \A i \in DOMAIN Presented(c) :
                    Presented(c)[i] = Summary(exercises_by_id[Presented(c)[i].exercise_id])
              /\ Len(AliasedIds(c)) < candidate_count[c] =>
                    Range(AliasedKnown(c)) \subseteq PresentedIds(c)
              /\ (Returned(c) /\ result[c].resolution_method = "error") =>
                    answer[c].kind \in {"failure", "no_content"}
        /\ ( /\ pc[c] = "responded" /\ request[c].route = "candidates"
             /\ request[c].candidate_count \in MinCandidateCount..MaxCandidateCount
             /\ AllNamed
             /\ GhostIds(request[c].exercise_name) # {} ) =>
              /\ response[c].status = 200
              /\ \A i \in DOMAIN response[c].candidates :
                    response[c].candidates[i].exercise_id
                        \notin GhostIds(request[c].exercise_name)

\* two of the three aliased identifiers are not in the catalog; the third
\* and a fuzzy match are presented
C23_Witness ==
    \E c \in Calls :
        /\ Selected(c) /\ CountGiven(c)
        /\ Cardinality(GhostIds(exercise_name[c])) = 2
        /\ Len(Presented(c)) = 2
        /\ PresentedIds(c) \cap Range(AliasedIds(c)) # {}
        /\ PresentedIds(c) \ Range(AliasedIds(c)) # {}


\* no two elements of the sequence of summaries have the same identifier
DistinctIds(cands) ==
    \A i, j \in DOMAIN cands : i # j => cands[i].exercise_id # cands[j].exercise_id

(***************************************************************************)
(* C24: the sequence selectCandidates returns never holds two summaries    *)
(* with the same exercise identifier, also when an identifier is found     *)
(* through the alias index and through fuzzy matching, or is listed twice  *)
(* under one alias.                                                        *)
(***************************************************************************)
C24_NoDuplicateIds ==
    \A c \in Calls :
        /\ Selected(c) => DistinctIds(Presented(c))
        /\ Answered200(c, "candidates") => DistinctIds(response[c].candidates)
        /\ \A k \in DOMAIN sent[c] : DistinctIds(sent[c][k].candidates_text)

\* the alias lists the identifier twice and fuzzy matching finds it too
C24_Witness ==
    \E c \in Calls :
        /\ Selected(c) /\ CountGiven(c)
        /\ Len(GetCandidatesFromAliases(exercise_name[c])) > Len(AliasedIds(c))
        /\ \E i \in DOMAIN FuzzyMatches(c) :
              /\ FuzzyMatches(c)[i][1] \in Range(AliasedIds(c))
              /\ FuzzyMatches(c)[i][1] \in PresentedIds(c)


\* the identifiers _select_candidates returns for the same arguments, catalog
\* and alias index in a process that iterates str sets in `order`
SelectedIdsUnder(order, name, target_count) ==
    LET Known(id) == id \in DOMAIN exercises_by_id
    IN  SelectSeq(Slice(ListOfSetIn(order, CandidateIds(name, target_count)),
                        target_count),
                  Known)

(***************************************************************************)
(* C25: selectCandidates is a deterministic pure function: the ordered     *)
(* sequence it returns is fixed by the query, the targetCount, the catalog *)
(* and the alias index, so any process serving the same files returns the  *)
(* same members in the same order; and the call changes no state.          *)
(***************************************************************************)
C25_SelectionIsFunctionOfInputs ==
    \A c \in Calls :
        (Selected(c) /\ CountGiven(c)) =>
            /\ \A order \in Perms(StoredIds(sources)) :
                  PresentedIdSeq(c) =
                      SelectedIdsUnder(order, exercise_name[c], candidate_count[c])
            /\ alias_index = sources.alias_json
            /\ exercises = sources.exercises_json


\* resolve_exercise is past its selection and has not returned
InProgress(c) == pc[c] \in {"selected", "awaiting"}

(***************************************************************************)
(* C26: every resolve call eventually returns a result in one of the five  *)
(* states, given that the oracle call eventually answers or fails; when    *)
(* the oracle call fails, as on a timeout, the call has returned 'error'   *)
(* and asks nothing more.                                                  *)
(***************************************************************************)
C26_ResolveReturns ==
    /\ \A c \in Calls :
          InProgress(c) ~>
              (Returned(c) /\ result[c].resolution_method \in ResolutionMethods)
    /\ [](\A c \in Calls :
              answer[c].kind = "failure" =>
                  /\ Returned(c)
                  /\ result[c].resolution_method = "error"
                  /\ Len(sent[c]) = 1)

\* the oracle call timed out and the call has returned
C26_Witness ==
    \E c \in Calls :
        /\ pc[c] = "returned"
        /\ sent[c] # <<>>
        /\ answer[c].text = <<"Request timed out.">>
        /\ result[c].resolution_method = "error"


(***************************************************************************)
(* C27: after a successful load the identifiers of the catalog are unique  *)
(* and the index agrees with the list: looking up the identifier of any    *)
(* record of the list gives that record, and the index has as many entries *)
(* as the list has records.                                                *)
(***************************************************************************)
C27_IndexAgreesWithList ==
    loadError = NoneText =>
        /\ \A i, j \in DOMAIN exercises :
              i # j => exercises[i].exerciseId # exercises[j].exerciseId
        /\ \A i \in DOMAIN exercises :
              exercises_by_id[exercises[i].exerciseId] = exercises[i]
        /\ Cardinality(DOMAIN exercises_by_id) = Len(exercises)
        /\ \A c \in Calls :
              (Answered200(c, "get") /\ request[c].exercise_id = IdA) =>
                  \A i \in DOMAIN exercises :
                      exercises[i].exerciseId = IdA => response[c].exercise = exercises[i]



(***************************************************************************)
(* C28 (as stated): whenever resolve returns "llm_match", the resolved     *)
(* exercise_id is the identifier of one of the candidates that were        *)
(* presented to the oracle in that call.                                   *)
(***************************************************************************)
C28_MatchIsPresented ==
    \A c \in Calls :
        (Returned(c) /\ result[c].resolution_method = "llm_match") =>
            result[c].exercise_id \in PresentedIds(c)

(***************************************************************************)
(* C28 (amended): whenever resolve returns "llm_match", the resolved       *)
(* exercise_id is the oracle's answer without surrounding whitespace and   *)
(* quotes, and it is a key of the catalog; the candidates presented to the *)
(* oracle do not constrain it.                                             *)
(***************************************************************************)
C28_MatchIsOracleIdInCatalog ==
    \A c \in Calls :
        (Returned(c) /\ result[c].resolution_method = "llm_match") =>
            /\ Answered(c)
            /\ result[c].exercise_id = CleanId(Strip(answer[c].text, Whitespace))
            /\ result[c].exercise_id \in CatalogKeys

\* a match on a catalog record that was not among the presented candidates
C28_Witness ==
    \E c \in Calls :
        /\ Returned(c)
        /\ result[c].resolution_method = "llm_match"
        /\ Presented(c) # <<>>
        /\ result[c].exercise_id \in CatalogKeys \ PresentedIds(c)



\* the identifiers of the catalog records eligible for the call's name: the
\* alias index lists the identifier for the normalized name, or the record's
\* name scores at least 50/100 against it
EligibleIds(c) ==
    {exercises[i].exerciseId : i \in
        {j \in DOMAIN exercises :
            \/ exercises[j].exerciseId \in
                   Range(GetCandidatesFromAliases(exercise_name[c]))
            \/ WRatio(NormalizeName(exercise_name[c]), Lower(exercises[j].name))
                   >= ScoreThreshold}}

(***************************************************************************)
(* C29: when at least targetCount distinct catalog records are eligible    *)
(* for a name, selectCandidates returns exactly targetCount candidates; it *)
(* returns fewer only when fewer eligible records exist.                   *)
(***************************************************************************)
C29_FullWhenEnoughEligible ==
    \A c \in Calls :
        (Selected(c) /\ CountGiven(c)) =>
            /\ Cardinality(EligibleIds(c)) >= candidate_count[c] =>
                  Len(Presented(c)) = candidate_count[c]
            /\ Len(Presented(c)) < candidate_count[c] =>
                  Cardinality(EligibleIds(c)) < candidate_count[c]



\* the dict resolve_exercise(exercise_name, 7) returns for the enrich request
\* of the slot, the oracle doing what it did in that call
EnrichResolution(c) ==
    AloneResult(request[c].exercise_name, EnrichCandidateCount,
                SelectCandidates(request[c].exercise_name, EnrichCandidateCount),
                answer[c])

\* the response of the slot to its enrich request
C30_ResponseCopies ==
    \A c \in Calls :
        (pc[c] = "responded" /\ request[c].route = "enrich") =>
            /\ response[c].status = 200
            /\ candidate_count[c] = 7
            /\ result[c] = EnrichResolution(c)
            /\ response[c].action = request[c].log.action
            /\ response[c].sets = request[c].log.sets
            /\ response[c].set_count = request[c].log.set_count
            /\ response[c].pre_parsed_message = request[c].log.pre_parsed_message
            /\ response[c].exercise_id = EnrichResolution(c).exercise_id
            /\ response[c].exercise_name = EnrichResolution(c).exercise_name
            /\ response[c].resolution_method = EnrichResolution(c).resolution_method
            /\ response[c].confidence_score = EnrichResolution(c).confidence_score
            /\ response[c].error # NoneText <=> ~EnrichResolution(c).success

\* a step of the handler leaves the request of the slot as it is
C30_RequestKept ==
    \A c \in Calls :
        (request[c].route = "enrich" /\ pc'[c] # "idle") =>
            /\ request'[c].route = "enrich"
            /\ request'[c].log.sets = request[c].log.sets

(***************************************************************************)
(* C30: the response to an enrich-workout-log request copies action, sets, *)
(* set_count and pre_parsed_message from the request; its exercise_id,     *)
(* exercise_name, resolution_method and confidence_score are those of      *)
(* resolve(exercise_name, 7); its error is non-null exactly when that      *)
(* resolution did not succeed; the handler never changes the request's     *)
(* sets.                                                                   *)
(***************************************************************************)
C30_EnrichCopiesAndResolves ==
    /\ []C30_ResponseCopies
    /\ [][C30_RequestKept]_vars

\* a match answered with the log of the request, whose set_count is not the
\* number of its sets
C30_Witness ==
    \E c \in Calls :
        /\ Answered200(c, "enrich")
        /\ request[c].log.set_count # Len(request[c].log.sets)
        /\ request[c].log.pre_parsed_message # NoneText
        /\ response[c].sets = request[c].log.sets
        /\ response[c].resolution_method = "llm_match"
        /\ response[c].exercise_id \in CatalogKeys
        /\ response[c].error = NoneText

====
